---- MODULE Spec2Model ----
(***************************************************************************)
(* Personal-Cloud-Backup: the backup engine (queue, drain, per-file        *)
(* pipeline), the SQLite catalog, the object store and the debouncing file *)
(* monitor, as state machines.                                             *)
(*                                                                         *)
(* Spec        - the engine under concurrency: the scheduler thread and    *)
(*               the shutdown drain of the main thread working on one      *)
(*               path against one catalog and one container, within one    *)
(*               tick of the clock.                                        *)
(* SweepSpec   - the scheduler thread alone, over several ticks: backups   *)
(*               and retention sweeps of one path.                         *)
(* RestoreSpec - the scheduler thread's backups and sweeps of one path,     *)
(*               restore_file calls and out-of-band changes to objects.    *)
(* UploadSpec  - upload_blob calls for one key: attempts, backoff, and the  *)
(*               staged blocks of _upload_in_blocks.                       *)
(* FilterSpec  - should_backup_file applied to one file.                   *)
(* NameSpec    - generate_blob_name applied to the arguments of two calls. *)
(* QueueSpec   - the backup queue with two paths and one draining thread.  *)
(* MonitorSpec - BackupFileHandler: events, the debounce timer, stop.      *)
(* BatchSpec   - the batch loop of process_backup_queue over one snapshot. *)
(* PipelineSpec- the monitor feeding the scheduler's drains of one path.   *)
(* DeviceSpec  - backups and sweeps of one device next to the objects and  *)
(*               rows of a second one.                                     *)
(* DebounceSpec- the running monitor under endless events, with fairness.  *)
(*                                                                         *)
(* The actions named after the code change program state only; each        *)
(* specification wraps them and keeps its own history variables.           *)
(***************************************************************************)
EXTENDS Integers, Sequences, FiniteSets, TLC

(***************************************************************************)
(* Bounds of the model.                                                    *)
(***************************************************************************)
MaxTime == 2
MaxRows == 3
MaxSweeps == 1
MaxListLen == 2
MaxAdds == 2
MaxFsOps == 2
MaxSchedCalls == 2
MaxQueueCalls == 2
MaxMonTime == 4
MaxBurst == 3
MaxRestoreCalls == 2
MaxPathLen == 2
MaxVersion == 2
MaxSecond == 1
MaxDataLen == 5
MaxRetries == 2
MaxUploadCalls == 2
MaxProbeLen == 5
MaxSnapshot == 5
MaxBatchCalls == 1
batch_size == 2

(* Sizes of azure_client.py, scaled: 5 MiB threshold, 1 MiB blocks. *)
BlockThreshold == 2
block_size == 2

(* range(3) of the per-block retry loop (azure_client.py 141). *)
BlockAttempts == 3

(* Configuration values (config/config.py), instantiated small. *)
max_versions_per_file == 1
retention_days == 1
retry_attempts == 1
debounce_seconds == 2
max_file_size_mb == 1

(* Bytes per MiB (1024 * 1024), scaled. *)
BytesPerMiB == 2

Paths == {"a", "b"}
Threads == {"sched", "main"}
device_id == "dev"
NULL == -1
NoText == "NULL"

VARIABLES
    now,              \* wall clock (datetime.now()), in ticks
    fs,               \* the local files: exists, content, mtime
    backups,          \* table backups, in id order (id = index)
    sync_status,      \* table sync_status, keyed by file_path (one device)
    cleanup_log,      \* table cleanup_log
    store,            \* the container: set of [name, last_modified]
    backup_queue,     \* BackupEngine._backup_queue
    is_backing_up,    \* BackupEngine._is_backing_up
    pc,               \* position of each thread
    files_to_backup,  \* process_backup_queue: the swapped-out snapshot
    pos,              \* process_backup_queue: index of the current file
    bf,               \* backup_file / add_backup_record locals
    cl,               \* cleanup_old_versions locals
    urandom,          \* salts drawn from os.urandom so far (each is fresh)
    rf,               \* restore_file: the last call, its locals and result
    dest,             \* the file at restore_path: exists, content
    ub,               \* upload_blob: the call in progress, its attempts and sleeps
    bl,               \* _upload_in_blocks: the blocks staged and the object under the key
    bq,               \* process_backup_queue: the batch loop over a snapshot
    sb,               \* should_backup_file: the file probed and the answer
    bn,               \* generate_blob_name: the arguments of two calls and the names
    ops,              \* history: file operations and drain calls so far
    uploaded,         \* history: blob names for which upload_blob returned
    bfCalls,          \* history: paths handed to backup_file by the drain
    addCount,         \* history: enqueue requests per path since the last swap
    drainDup,         \* history: paths of the snapshot requested twice or more
    sweepsAtCommit,   \* history: Len(cleanup_log) when each row was committed
    pending_files,    \* BackupFileHandler._pending_files, in insertion order
    debounce_timer,   \* BackupFileHandler._debounce_timer: armed, due
    callbacks,        \* timers whose wait ended and whose callback has not run yet
    mon_phase,        \* running / handler_stopped / stopped
    lastEvent,        \* history: time of the last event recorded per path
    burstCount,       \* history: events of the path's current burst
    enqCount,         \* history: enqueues of the path since its burst began
    dropCount         \* history: entries of the path dropped since its burst began

envVars == <<now, fs>>
dbVars == <<backups, sync_status, cleanup_log>>
queueVars == <<backup_queue, is_backing_up>>
threadVars == <<pc, files_to_backup, pos, bf, cl>>
restoreVars == <<rf, dest>>
callVars == <<ub, bl, bq, sb, bn>>
monVars == <<pending_files, debounce_timer, callbacks, mon_phase>>
engineHist == <<uploaded, sweepsAtCommit, ops>>
queueHist == <<bfCalls, addCount, drainDup>>
monHist == <<lastEvent, burstCount, enqCount, dropCount>>
histVars == <<engineHist, queueHist, monHist>>

vars == <<envVars, dbVars, store, queueVars, threadVars, urandom, restoreVars, callVars, monVars,
         histVars>>

(***************************************************************************)
(* Helpers on sequences and sets.                                          *)
(***************************************************************************)
Range(s) == {s[i] : i \in DOMAIN s}

NoDuplicates(s) == \A i, j \in DOMAIN s : i # j => s[i] # s[j]

Occurrences(s, x) == Cardinality({i \in DOMAIN s : s[i] = x})

SetMax(S) == CHOOSE x \in S : \A y \in S : y <= x

SeqsUpTo(S, n) == UNION {[1..k -> S] : k \in 1..n}

(***************************************************************************)
(* Local files.                                                            *)
(***************************************************************************)
NoFile == [exists |-> FALSE, content |-> 0, mtime |-> 0]

\* hashlib.sha256(data).hexdigest(): distinct contents, distinct digests
generate_data_hash(data) == <<"sha256", data>>

\* generate_file_hash reads the file; the caller handles a missing file
generate_file_hash(p) == generate_data_hash(fs[p].content)

(***************************************************************************)
(* Compression and encryption (backup_engine.py 95-108, encryption.py).    *)
(***************************************************************************)
\* gzip.compress / gzip.decompress
compress_file_data(data) == <<"gzip", data>>

gzip_decompress(compressed_data) == compressed_data[2]

\* Fernet under a key derived from the password and the salt: the token
\* authenticates under that key only
encrypt_data(data, salt) == [salt |-> salt, plain |-> data, tampered |-> FALSE]

\* fernet.decrypt raises InvalidToken for another key or a changed token
Decryptable(encrypted_data, salt) == encrypted_data.salt = salt /\ ~encrypted_data.tampered

decrypt_data(encrypted_data, salt) == encrypted_data.plain

(***************************************************************************)
(* Catalog queries (src/src/database.py).                                  *)
(***************************************************************************)
RowIds == DOMAIN backups

RowsOf(p, d) == {i \in RowIds : backups[i].file_path = p /\ backups[i].device_id = d}

LiveRowsOf(p, d) == {i \in RowsOf(p, d) : ~backups[i].is_deleted}

\* SELECT MAX(version) ... AND is_deleted = FALSE; (result[0] or 0) + 1
get_next_version(p, d) ==
    IF LiveRowsOf(p, d) = {} THEN 1
    ELSE SetMax({backups[i].version : i \in LiveRowsOf(p, d)}) + 1

\* get_file_versions(...)[0]: the non-deleted row of highest version, or none
HasLatest(p, d) == LiveRowsOf(p, d) # {}

get_latest_backup(p, d) ==
    backups[CHOOSE i \in LiveRowsOf(p, d) :
                \A j \in LiveRowsOf(p, d) : backups[j].version <= backups[i].version]

\* the mutant drops the constraint
UniqueViolationNone(p, v, d) == FALSE

\* UNIQUE(file_path, version, device_id)
UniqueViolation(p, v, d) == \E i \in RowsOf(p, d) : backups[i].version = v

NoStatus == [status |-> "absent", last_modified |-> NULL, last_backup |-> NULL,
             error_message |-> NoText]

\* INSERT OR REPLACE INTO sync_status (file_path, last_modified, status,
\* error_message, device_id): the replaced row's last_backup is not carried over
update_sync_status(p, last_modified, status, error_message) ==
    [sync_status EXCEPT ![p] = [status |-> status, last_modified |-> last_modified,
                                last_backup |-> NULL, error_message |-> error_message]]

\* SELECT file_path FROM sync_status WHERE device_id = ? AND (status = 'pending'
\* OR last_modified > last_backup OR last_backup IS NULL); a comparison with
\* NULL is not true
get_files_needing_backup(d) ==
    {p \in Paths :
        /\ d = device_id
        /\ sync_status[p].status # "absent"
        /\ \/ sync_status[p].status = "pending"
           \/ /\ sync_status[p].last_backup # NULL
              /\ sync_status[p].last_modified > sync_status[p].last_backup
           \/ sync_status[p].last_backup = NULL}

(***************************************************************************)
(* Object store (src/src/azure_client.py).                                 *)
(***************************************************************************)
\* {device_id}/{YYYY}/{MM}/{sanitized_path}/v{version}_{YYYYMMDD_HHMMSS}.backup
generate_blob_name(d, p, version, timestamp) ==
    [device |-> d, path |-> p, version |-> version, ts |-> timestamp]

BlobNames == {b.name : b \in store}

\* blob_client.upload_blob(..., overwrite=True)
PutBlob(name, data, t) ==
    {b \in store : b.name # name} \cup {[name |-> name, last_modified |-> t, data |-> data]}

(***************************************************************************)
(* Initial state: a fresh catalog and container, every thread idle, the    *)
(* monitor running with nothing pending.                                   *)
(***************************************************************************)
NoBlob == generate_blob_name(device_id, "", 0, 0)

NoData == encrypt_data(compress_file_data(0), 0)

NoBF == [file_path |-> "", checksum |-> generate_data_hash(0), version |-> 0,
         blob_name |-> NoBlob, attempt |-> 0, abr_version |-> 0, error |-> NoText,
         salt |-> 0, encrypted_data |-> NoData]

NoRF == [backup_id |-> 0, callback |-> FALSE, step |-> "none", result |-> FALSE]

NoDest == [exists |-> FALSE, content |-> 0]

\* no upload_blob call yet
NoUB == [status |-> "none", data |-> <<>>, max_retries |-> 0, attempt |-> 0,
         attempts |-> 0, sleeps |-> <<>>, errors |-> <<>>, calls |-> 0]

\* no _upload_in_blocks call yet, nothing under the key
NoBL == [status |-> "none", i |-> 0, block_attempt |-> 0, block_list |-> <<>>,
         tries |-> <<>>, visible |-> <<>>, commits |-> 0]

\* no batch loop yet
NoBQ == [status |-> "none", files_to_backup |-> <<>>, i |-> 0, batch_count |-> 0,
         log |-> <<>>, calls |-> 0]

\* a regular, readable, empty file at path
RegularFile(path, exists) ==
    [exists |-> exists, kind |-> "file", size |-> 0, readable |-> TRUE, path |-> path]

\* no file probed yet
NoSB == [status |-> "none", file |-> RegularFile(<<>>, FALSE), result |-> FALSE]

\* no name generated yet
NoBN == <<>>

NoCL == [files_to_clean |-> {}, first |-> "", old_versions |-> {}, error |-> "NULL"]

NoTimer == [armed |-> FALSE, due |-> 0]

Init ==
    /\ now = 0
    /\ fs = [p \in Paths |-> [exists |-> TRUE, content |-> 0, mtime |-> 0]]
    /\ backups = <<>>
    /\ sync_status = [p \in Paths |-> NoStatus]
    /\ cleanup_log = <<>>
    /\ store = {}
    /\ backup_queue = <<>>
    /\ is_backing_up = FALSE
    /\ pc = [t \in Threads |-> "idle"]
    /\ files_to_backup = [t \in Threads |-> <<>>]
    /\ pos = [t \in Threads |-> 0]
    /\ bf = [t \in Threads |-> NoBF]
    /\ cl = [t \in Threads |-> NoCL]
    /\ urandom = 0
    /\ rf = NoRF
    /\ dest = NoDest
    /\ ub = NoUB
    /\ bl = NoBL
    /\ bq = NoBQ
    /\ sb = NoSB
    /\ bn = NoBN
    /\ ops = [fs |-> 0, calls |-> [t \in Threads |-> 0], restores |-> 0]
    /\ uploaded = {}
    /\ bfCalls = [t \in Threads |-> <<>>]
    /\ addCount = [p \in Paths |-> 0]
    /\ drainDup = [t \in Threads |-> {}]
    /\ sweepsAtCommit = <<>>
    /\ pending_files = <<>>
    /\ debounce_timer = NoTimer
    /\ callbacks = 0
    /\ mon_phase = "running"
    /\ lastEvent = [p \in Paths |-> NULL]
    /\ burstCount = [p \in Paths |-> 0]
    /\ enqCount = [p \in Paths |-> 0]
    /\ dropCount = [p \in Paths |-> 0]

(***************************************************************************)
(* Environment: the clock and the user's files.                            *)
(***************************************************************************)
Tick ==
    /\ now' = now + 1
    /\ UNCHANGED <<fs, dbVars, store, queueVars, threadVars, monVars, urandom, restoreVars, callVars>>

\* the next content of a file: a write changes the bytes
OtherContent(c) == 1 - c

FsWrite(p) ==
    /\ fs' = [fs EXCEPT ![p] = [exists |-> TRUE, content |-> OtherContent(fs[p].content),
                                mtime |-> now]]
    /\ UNCHANGED <<now, dbVars, store, queueVars, threadVars, monVars, urandom, restoreVars, callVars>>

\* a touch: the mtime moves, the bytes stay
FsTouch(p) ==
    /\ fs[p].exists
    /\ fs' = [fs EXCEPT ![p].mtime = now]
    /\ UNCHANGED <<now, dbVars, store, queueVars, threadVars, monVars, urandom, restoreVars, callVars>>

FsDelete(p) ==
    /\ fs[p].exists
    /\ fs' = [fs EXCEPT ![p] = NoFile]
    /\ UNCHANGED <<now, dbVars, store, queueVars, threadVars, monVars, urandom, restoreVars, callVars>>

(***************************************************************************)
(* BackupEngine.add_to_backup_queue (backup_engine.py 362-369).            *)
(***************************************************************************)
RECURSIVE AppendNewAlways(_, _)
\* the mutant appends without the membership test
AppendNewAlways(q, file_paths) ==
    IF file_paths = <<>> THEN q
    ELSE AppendNewAlways(Append(q, Head(file_paths)), Tail(file_paths))

RECURSIVE AppendNew(_, _)
\* for file_path in file_paths: if file_path not in queue: queue.append(file_path)
AppendNew(q, file_paths) ==
    IF file_paths = <<>> THEN q
    ELSE AppendNew(IF Head(file_paths) \in Range(q) THEN q
                   ELSE Append(q, Head(file_paths)),
                   Tail(file_paths))

\* under _backup_lock; the manual-backup endpoint and the initial scan pass
\* paths they found on disk
add_to_backup_queue(file_paths) ==
    /\ \A i \in DOMAIN file_paths : fs[file_paths[i]].exists
    /\ backup_queue' = AppendNew(backup_queue, file_paths)
    /\ UNCHANGED <<envVars, dbVars, store, is_backing_up, threadVars, monVars,
                   urandom, restoreVars, callVars>>

(***************************************************************************)
(* BackupEngine.process_backup_queue (backup_engine.py 371-435).           *)
(***************************************************************************)
\* lines 373-375: the flag is read before the lock is taken
PBQ_Check(t) ==
    /\ pc[t] = "idle"
    /\ pc' = [pc EXCEPT ![t] = IF is_backing_up THEN "ret_already_running"
                               ELSE "pbq_lock"]
    /\ UNCHANGED <<envVars, dbVars, store, queueVars, files_to_backup, pos, bf, cl,
                   monVars, urandom, restoreVars, callVars>>

\* the mutant takes a reference: clear() empties the snapshot as well
QueueAlias(queue) == <<>>

\* line 382: self._backup_queue.copy()
QueueCopy(queue) == queue

\* lines 377-384, under _backup_lock
PBQ_Swap(t) ==
    /\ pc[t] = "pbq_lock"
    /\ IF backup_queue = <<>>
       THEN /\ pc' = [pc EXCEPT ![t] = "ret_empty_queue"]
            /\ UNCHANGED <<queueVars, files_to_backup, pos>>
       ELSE /\ files_to_backup' = [files_to_backup EXCEPT ![t] = QueueCopy(backup_queue)]
            /\ backup_queue' = <<>>
            /\ is_backing_up' = TRUE
            /\ pos' = [pos EXCEPT ![t] = 1]
            /\ pc' = [pc EXCEPT ![t] = "drain"]
    /\ UNCHANGED <<envVars, dbVars, store, bf, cl, monVars, urandom, restoreVars, callVars>>

\* the mutant resets the flag at the end of the try block only
FlagStuckOnError(status) == status = "ret_error"

\* lines 433-435: finally: self._is_backing_up = False, whatever the outcome
FlagAfterDrain(status) == FALSE

\* lines 404-410 for one file, and lines 421-428, 434-435 after the last one
Drain_Next(t) ==
    /\ pc[t] = "drain"
    /\ IF pos[t] > Len(files_to_backup[t])
       THEN /\ is_backing_up' = FlagAfterDrain("ret_completed")
            /\ pc' = [pc EXCEPT ![t] = "ret_completed"]
            /\ files_to_backup' = [files_to_backup EXCEPT ![t] = <<>>]
            /\ pos' = [pos EXCEPT ![t] = 0]
            /\ UNCHANGED bf
       ELSE /\ IF ~fs[files_to_backup[t][pos[t]]].exists
               THEN /\ pos' = [pos EXCEPT ![t] = pos[t] + 1]
                    /\ UNCHANGED <<pc, bf>>
               ELSE /\ pc' = [pc EXCEPT ![t] = "bf_validate"]
                    /\ bf' = [bf EXCEPT ![t] =
                                [NoBF EXCEPT !.file_path = files_to_backup[t][pos[t]]]]
                    /\ UNCHANGED pos
            /\ UNCHANGED <<is_backing_up, files_to_backup>>
    /\ UNCHANGED <<envVars, dbVars, store, backup_queue, cl, monVars, urandom, restoreVars, callVars>>

ReturnStates == {"ret_already_running", "ret_empty_queue", "ret_completed", "ret_error"}

\* the caller takes the result (main.py 227-232, 302)
PBQ_Return(t) ==
    /\ pc[t] \in ReturnStates
    /\ pc' = [pc EXCEPT ![t] = "idle"]
    /\ UNCHANGED <<envVars, dbVars, store, queueVars, files_to_backup, pos, bf, cl,
                   monVars, urandom, restoreVars, callVars>>

DrainStates == {"drain", "bf_validate", "bf_read", "bf_upload", "abr_read",
                "abr_insert", "bf_except"}

(***************************************************************************)
(* BackupEngine.backup_file (backup_engine.py 110-228), in the steps at    *)
(* which other threads and the file system can interleave.                 *)
(***************************************************************************)
\* config.exclude_patterns: '*.tmp' and '.git/*' of the defaults, on paths
\* that are sequences of the pieces ".", "/", ".git", "x", ".tmp"
exclude_patterns == {<<"*", ".tmp">>, <<".git", "/", "*">>}

PathPieces == {".", "/", ".git", "x", ".tmp"}

RECURSIVE fnmatch(_, _)
\* fnmatch.fnmatch(name, pat): '*' matches any run of characters, '/' included
fnmatch(name, pat) ==
    IF pat = <<>> THEN name = <<>>
    ELSE IF Head(pat) = "*"
         THEN fnmatch(name, Tail(pat)) \/ (name # <<>> /\ fnmatch(Tail(name), pat))
    ELSE name # <<>> /\ Head(name) = Head(pat) /\ fnmatch(Tail(name), Tail(pat))

RECURSIVE basename(_)
\* os.path.basename: what follows the last separator
basename(path) ==
    IF \A i \in DOMAIN path : path[i] # "/" THEN path
    ELSE basename(Tail(path))

RECURSIVE relpath(_)
\* os.path.relpath of a path given relative to the CWD: leading "./" are dropped
relpath(path) ==
    IF Len(path) >= 2 /\ path[1] = "." /\ path[2] = "/" THEN relpath(Tail(Tail(path)))
    ELSE path

max_size_bytes == max_file_size_mb * BytesPerMiB

\* should_backup_file on the attributes of the file (backup_engine.py 32-61):
\* getsize raises for a missing path, and any error yields False
ShouldBackupFile(file) ==
    IF ~file.exists THEN FALSE
    ELSE IF file.size > max_size_bytes THEN FALSE
    ELSE IF \E pattern \in exclude_patterns :
               fnmatch(basename(file.path), pattern) \/ fnmatch(relpath(file.path), pattern)
         THEN FALSE
    ELSE file.readable

\* the files of the engine's paths are regular, readable, small and not excluded
should_backup_file(p) == ShouldBackupFile(RegularFile(<<p>>, fs[p].exists))

\* needs_backup: any error of the check yields True
\* mutants: the hash comparison is left out; the mtime test is >=
needs_backup_mtime_only(p) ==
    IF ~fs[p].exists THEN TRUE
    ELSE IF ~HasLatest(p, device_id) THEN TRUE
    ELSE fs[p].mtime > get_latest_backup(p, device_id).backup_date

needs_backup_ge(p) ==
    IF ~fs[p].exists THEN TRUE
    ELSE IF ~HasLatest(p, device_id) THEN TRUE
    ELSE IF fs[p].mtime >= get_latest_backup(p, device_id).backup_date THEN TRUE
    ELSE generate_file_hash(p) # get_latest_backup(p, device_id).checksum

needs_backup(p) ==
    IF ~fs[p].exists THEN TRUE
    ELSE IF ~HasLatest(p, device_id) THEN TRUE
    ELSE IF fs[p].mtime > get_latest_backup(p, device_id).backup_date THEN TRUE
    ELSE generate_file_hash(p) # get_latest_backup(p, device_id).checksum

\* backup_file returns to the drain loop (lines 410-415); its locals die
BFReturn(t) ==
    /\ bf' = [bf EXCEPT ![t] = NoBF]
    /\ pc' = [pc EXCEPT ![t] = "drain"]
    /\ pos' = [pos EXCEPT ![t] = pos[t] + 1]

\* an exception inside the try block of backup_file (line 220)
BFRaise(t, error) ==
    /\ bf' = [bf EXCEPT ![t].error = error]
    /\ pc' = [pc EXCEPT ![t] = "bf_except"]

\* lines 118-124
BF_Validate(t) ==
    /\ pc[t] = "bf_validate"
    /\ IF should_backup_file(bf[t].file_path) /\ needs_backup(bf[t].file_path)
       THEN /\ pc' = [pc EXCEPT ![t] = "bf_read"]
            /\ UNCHANGED <<pos, bf>>
       ELSE BFReturn(t)
    /\ UNCHANGED <<envVars, dbVars, store, queueVars, files_to_backup, cl, monVars,
                   urandom, restoreVars, callVars>>

\* lines 126-153: read, hash, compress, encrypt, next version, blob name
BF_Read(t) ==
    /\ pc[t] = "bf_read"
    /\ IF ~fs[bf[t].file_path].exists
       THEN BFRaise(t, "FileNotFoundError") /\ UNCHANGED urandom
       ELSE /\ bf' = [bf EXCEPT ![t].checksum =
                                    generate_data_hash(fs[bf[t].file_path].content),
                                ![t].version =
                                    get_next_version(bf[t].file_path, device_id),
                                ![t].blob_name =
                                    generate_blob_name(device_id, bf[t].file_path,
                                        get_next_version(bf[t].file_path, device_id), now),
                                ![t].attempt = 0,
                                ![t].salt = urandom + 1,
                                ![t].encrypted_data =
                                    encrypt_data(compress_file_data(
                                        fs[bf[t].file_path].content), urandom + 1)]
            /\ urandom' = urandom + 1
            /\ pc' = [pc EXCEPT ![t] = "bf_upload"]
    /\ UNCHANGED <<envVars, dbVars, store, queueVars, files_to_backup, pos, cl, monVars,
                   restoreVars, callVars>>

\* the mutant goes on to the catalog insert when the budget is exhausted
AfterFailedAttemptSwallow(attempt) ==
    IF attempt < retry_attempts THEN "bf_upload" ELSE "abr_read"

\* upload_blob, azure_client.py 104-111: retry while attempt < max_retries,
\* else re-raise to backup_file
AfterFailedAttempt(attempt) ==
    IF attempt < retry_attempts THEN "bf_upload" ELSE "bf_except"

\* lines 166-177: one attempt of upload_blob (azure_client.py 65-111)
BF_Upload(t) ==
    /\ pc[t] = "bf_upload"
    /\ \/ /\ store' = PutBlob(bf[t].blob_name, bf[t].encrypted_data, now)
          /\ pc' = [pc EXCEPT ![t] = "abr_read"]
          /\ UNCHANGED bf
       \/ /\ pc' = [pc EXCEPT ![t] = AfterFailedAttempt(bf[t].attempt)]
          /\ bf' = [bf EXCEPT ![t].attempt = IF bf[t].attempt < retry_attempts
                                             THEN bf[t].attempt + 1 ELSE bf[t].attempt,
                              ![t].error = IF bf[t].attempt < retry_attempts
                                           THEN NoText ELSE "UploadError"]
          /\ UNCHANGED store
    /\ UNCHANGED <<envVars, dbVars, queueVars, files_to_backup, pos, cl, monVars,
                   urandom, restoreVars, callVars>>

\* lines 189-202 and database.py 87-89: the arguments are evaluated
\* (os.path.getmtime), then add_backup_record reads the next version on a
\* connection of its own, before its transaction begins
ABR_Read(t) ==
    /\ pc[t] = "abr_read"
    /\ IF ~fs[bf[t].file_path].exists
       THEN BFRaise(t, "FileNotFoundError")
       ELSE /\ bf' = [bf EXCEPT ![t].abr_version =
                                    get_next_version(bf[t].file_path, device_id)]
            /\ pc' = [pc EXCEPT ![t] = "abr_insert"]
    /\ UNCHANGED <<envVars, dbVars, store, queueVars, files_to_backup, pos, cl, monVars,
                   urandom, restoreVars, callVars>>

NewRow(t) ==
    [file_path |-> bf[t].file_path, version |-> bf[t].abr_version,
     device_id |-> device_id, blob_name |-> bf[t].blob_name,
     backup_date |-> now, checksum |-> bf[t].checksum, salt |-> bf[t].salt,
     is_deleted |-> FALSE]

\* the mutant keeps the statements that ran before the error
TxnAbortKeeps(before, after) == after

\* "with sqlite3.connect(...) as conn": an exception inside the block rolls
\* the open transaction back (database.py 87, 115-117)
TxnAbort(before, after) == before

\* database.py 91-113: INSERT INTO backups, INSERT OR REPLACE INTO sync_status,
\* commit; an IntegrityError of the first statement, or an error of the
\* second statement or of the commit (database locked, disk I/O), raises
ABR_Insert(t) ==
    /\ pc[t] = "abr_insert"
    /\ IF UniqueViolation(bf[t].file_path, bf[t].abr_version, device_id)
       THEN /\ BFRaise(t, "IntegrityError")
            /\ UNCHANGED <<dbVars, pos>>
       ELSE /\ Len(backups) < MaxRows
            /\ \/ /\ backups' = Append(backups, NewRow(t))
                  /\ sync_status' = [sync_status EXCEPT ![bf[t].file_path] =
                                       [status |-> "completed", last_modified |-> now,
                                        last_backup |-> now, error_message |-> NoText]]
                  /\ BFReturn(t)
               \/ /\ backups' = TxnAbort(backups, Append(backups, NewRow(t)))
                  /\ BFRaise(t, "OperationalError")
                  /\ UNCHANGED <<sync_status, pos>>
            /\ UNCHANGED cleanup_log
    /\ UNCHANGED <<envVars, store, queueVars, files_to_backup, cl, monVars,
                   urandom, restoreVars, callVars>>

\* lines 220-228: the handler reads the file's mtime again; when the file is
\* gone that raises out of backup_file, into process_backup_queue's
\* except/finally (lines 430-435)
BF_Except(t) ==
    /\ pc[t] = "bf_except"
    /\ IF fs[bf[t].file_path].exists
       THEN /\ sync_status' = update_sync_status(bf[t].file_path,
                                  fs[bf[t].file_path].mtime, "error", bf[t].error)
            /\ BFReturn(t)
            /\ UNCHANGED <<is_backing_up, files_to_backup>>
       ELSE /\ is_backing_up' = FlagAfterDrain("ret_error")
            /\ pc' = [pc EXCEPT ![t] = "ret_error"]
            /\ files_to_backup' = [files_to_backup EXCEPT ![t] = <<>>]
            /\ pos' = [pos EXCEPT ![t] = 0]
            /\ bf' = [bf EXCEPT ![t] = NoBF]
            /\ UNCHANGED sync_status
    /\ UNCHANGED <<envVars, backups, cleanup_log, store, backup_queue, cl, monVars,
                   urandom, restoreVars, callVars>>

(***************************************************************************)
(* DatabaseManager.cleanup_old_versions (database.py 190-249) and          *)
(* BackupEngine.cleanup_old_backups (backup_engine.py 437-466).  sqlite3   *)
(* opens the transaction at the first UPDATE/INSERT: the SELECTs before it *)
(* run in autocommit mode, so other connections can commit in between.     *)
(***************************************************************************)
\* SELECT file_path, COUNT(*) ... WHERE device_id = ? AND is_deleted = FALSE
\* GROUP BY file_path HAVING version_count > ?
FilesToClean(d, max_versions) ==
    {p \in Paths : Cardinality(LiveRowsOf(p, d)) > max_versions}

\* SELECT id ... AND is_deleted = FALSE ORDER BY version DESC LIMIT -1 OFFSET ?
OldVersions(p, d, max_versions) ==
    {i \in LiveRowsOf(p, d) :
        Cardinality({j \in LiveRowsOf(p, d) :
                        backups[j].version > backups[i].version}) >= max_versions}

\* SELECT id ... WHERE device_id = ? AND backup_date < ? AND is_deleted = FALSE,
\* evaluated inside the transaction, after the count-based UPDATEs (marked)
OldBackups(d, cutoff_date, marked) ==
    {i \in RowIds : /\ backups[i].device_id = d
                    /\ backups[i].backup_date < cutoff_date
                    /\ ~backups[i].is_deleted
                    /\ i \notin marked}

\* lines 195-205: the count query
CL_Count(t) ==
    /\ pc[t] = "idle"
    /\ cl' = [cl EXCEPT ![t] =
                [NoCL EXCEPT !.files_to_clean = FilesToClean(device_id, max_versions_per_file)]]
    /\ pc' = [pc EXCEPT ![t] =
                IF FilesToClean(device_id, max_versions_per_file) = {}
                THEN "cl_commit" ELSE "cl_select"]
    /\ UNCHANGED <<envVars, dbVars, store, queueVars, files_to_backup, pos, bf, monVars,
                   urandom, restoreVars, callVars>>

\* lines 207-216, first iteration: the last SELECT before the transaction
CL_Select(t) ==
    /\ pc[t] = "cl_select"
    /\ \E f \in cl[t].files_to_clean :
          cl' = [cl EXCEPT ![t].first = f,
                           ![t].old_versions = OldVersions(f, device_id, max_versions_per_file)]
    /\ pc' = [pc EXCEPT ![t] = "cl_commit"]
    /\ UNCHANGED <<envVars, dbVars, store, queueVars, files_to_backup, pos, bf, monVars,
                   urandom, restoreVars, callVars>>

\* rows marked by the count step: the first file's selection, and the other
\* files' selections made inside the transaction
CountMarked(t) ==
    cl[t].old_versions \cup
    UNION {OldVersions(f, device_id, max_versions_per_file) :
              f \in cl[t].files_to_clean \ {cl[t].first}}

\* the mutant clears the blob name of the row as well
TombstoneWiped(row) == [row EXCEPT !.is_deleted = TRUE, !.blob_name = NoBlob]

\* UPDATE backups SET is_deleted = TRUE WHERE id = ? (lines 219, 232)
Tombstone(row) == [row EXCEPT !.is_deleted = TRUE]

\* the rows after the UPDATEs of both steps (lines 218-234)
Tombstoned(rows) ==
    [i \in RowIds |-> IF i \in rows THEN Tombstone(backups[i]) ELSE backups[i]]

\* lines 218-242: the UPDATEs of both steps, the cleanup_log row, the commit;
\* lines 247-249 and backup_engine.py 464-466: a failing statement rolls the
\* transaction back and the error leaves cleanup_old_backups before the prune
CL_Commit(t) ==
    /\ pc[t] = "cl_commit"
    /\ LET marked == CountMarked(t)
           old == OldBackups(device_id, now - retention_days, marked)
           logged == Append(cleanup_log,
                            [cleanup_date |-> now,
                             files_cleaned |-> Cardinality(marked) + Cardinality(old)])
       IN \/ /\ backups' = Tombstoned(marked \cup old)
             /\ cleanup_log' = logged
             /\ pc' = [pc EXCEPT ![t] = "cl_prune"]
             /\ cl' = [cl EXCEPT ![t] = NoCL]
          \/ /\ backups' = TxnAbort(backups, Tombstoned(marked \cup old))
             /\ cleanup_log' = TxnAbort(cleanup_log, logged)
             /\ pc' = [pc EXCEPT ![t] = "idle"]
             /\ cl' = [cl EXCEPT ![t] = [NoCL EXCEPT !.error = "OperationalError"]]
    /\ UNCHANGED <<envVars, sync_status, store, queueVars, files_to_backup, pos, bf,
                   monVars, urandom, restoreVars, callVars>>

\* blob names begin with the device id: name.startswith(prefix)
DevicePrefixes == {<<"dev", "dev">>, <<"dev", "dev2">>, <<"dev2", "dev2">>}

NameStartsWith(name, prefix) == <<prefix, name.device>> \in DevicePrefixes

\* AzureStorageManager.cleanup_old_blobs (azure_client.py 336-359)
CL_Prune(t) ==
    /\ pc[t] = "cl_prune"
    /\ store' = {b \in store : ~(/\ NameStartsWith(b.name, device_id)
                                 /\ b.last_modified < now - retention_days)}
    /\ pc' = [pc EXCEPT ![t] = "idle"]
    /\ UNCHANGED <<envVars, dbVars, queueVars, files_to_backup, pos, bf, cl, monVars,
                   urandom, restoreVars, callVars>>

(***************************************************************************)
(* BackupEngine.restore_file (backup_engine.py 230-303).  The call reads   *)
(* the catalog and the container and writes restore_path; an I/O fault may *)
(* strike the download, the open or the write.                             *)
(***************************************************************************)
\* the mutant returns tombstoned rows too
get_backup_by_id_any(backup_id) == {i \in RowIds : i = backup_id}

\* SELECT * FROM backups WHERE id = ? AND is_deleted = FALSE; fetchone():
\* the set holds the row's id, or is empty (None)
get_backup_by_id(backup_id) == {i \in RowIds : i = backup_id /\ ~backups[i].is_deleted}

\* blob_client.download_blob().readall()
download_blob(name) == (CHOOSE b \in store : b.name = name).data

\* lines 260-269: the bytes that restore_file obtains for a row
RestoredData(i) ==
    gzip_decompress(decrypt_data(download_blob(backups[i].blob_name), backups[i].salt))

\* lines 252-276: the step at which restore_file stops when no I/O fault
\* strikes; "write" when every check has passed
RestoreStep(backup_id) ==
    IF get_backup_by_id(backup_id) = {} THEN "lookup"
    ELSE IF backups[backup_id].blob_name \notin BlobNames THEN "download"
    ELSE IF ~Decryptable(download_blob(backups[backup_id].blob_name),
                         backups[backup_id].salt) THEN "decrypt"
    ELSE IF generate_data_hash(RestoredData(backup_id)) # backups[backup_id].checksum
         THEN "checksum"
    ELSE "write"

Faults == {"none", "download", "open", "write"}

\* the bytes of a file that was opened with 'wb' and not written in full
Partial == NULL

\* restore_file(backup_id, restore_path), lines 240-303
restore_file(backup_id, fault) ==
    /\ IF RestoreStep(backup_id) = "lookup"
       THEN /\ rf' = [backup_id |-> backup_id, callback |-> FALSE, step |-> "lookup", result |-> FALSE]
            /\ UNCHANGED dest
       ELSE IF fault = "download" \/ RestoreStep(backup_id) = "download"
       THEN /\ rf' = [backup_id |-> backup_id, callback |-> FALSE, step |-> "download", result |-> FALSE]
            /\ UNCHANGED dest
       ELSE IF RestoreStep(backup_id) # "write"
       THEN /\ rf' = [backup_id |-> backup_id, callback |-> FALSE, step |-> RestoreStep(backup_id),
                      result |-> FALSE]
            /\ UNCHANGED dest
       ELSE IF fault = "open"
       THEN /\ rf' = [backup_id |-> backup_id, callback |-> FALSE, step |-> "open", result |-> FALSE]
            /\ UNCHANGED dest
       ELSE IF fault = "write"
       THEN /\ rf' = [backup_id |-> backup_id, callback |-> FALSE, step |-> "write", result |-> FALSE]
            /\ dest' = [exists |-> TRUE, content |-> Partial]
       ELSE /\ rf' = [backup_id |-> backup_id, callback |-> FALSE, step |-> "done", result |-> TRUE]
            /\ dest' = [exists |-> TRUE, content |-> RestoredData(backup_id)]
    /\ UNCHANGED <<envVars, dbVars, store, queueVars, threadVars, urandom, monVars,
                   callVars>>

\* restore_with_progress (web_dashboard.py 303-322) calls
\* restore_file(backup_id, restore_path, progress_callback); restore_file
\* takes two arguments (backup_engine.py 230), so the call raises TypeError
\* before the body runs, and the handler records the failure
restore_with_progress(backup_id) ==
    /\ get_backup_by_id(backup_id) # {}
    /\ rf' = [backup_id |-> backup_id, callback |-> TRUE, step |-> "call",
              result |-> FALSE]
    /\ UNCHANGED dest
    /\ UNCHANGED <<envVars, dbVars, store, queueVars, threadVars, urandom, monVars,
                   callVars>>

\* a byte of a stored object is changed out-of-band
TamperBlob(name) ==
    /\ name \in BlobNames
    /\ store' = {IF b.name = name THEN [b EXCEPT !.data.tampered = TRUE] ELSE b : b \in store}
    /\ UNCHANGED <<envVars, dbVars, queueVars, threadVars, urandom, restoreVars, callVars, monVars>>

(***************************************************************************)
(* AzureStorageManager.generate_blob_name on path strings                  *)
(* (azure_client.py 297-309).  A path is a sequence of characters; a       *)
(* timestamp has a second and a microsecond.                               *)
(***************************************************************************)
PathChars == {"/", "\\", ":", "_", "x"}

\* paths of files: the last character is not the separator
FilePaths == {f \in SeqsUpTo(PathChars, MaxPathLen) : f[Len(f)] # "/"}

Timestamps == [second : 0..MaxSecond, microsecond : 0..1]

\* str.replace(old, new) for single characters
Replace(str, old, new) == [i \in DOMAIN str |-> IF str[i] = old THEN new ELSE str[i]]

RECURSIVE LStrip(_, _)
\* str.lstrip(c)
LStrip(str, c) == IF str # <<>> /\ Head(str) = c THEN LStrip(Tail(str), c) ELSE str

\* file_path.replace('\\', '/').replace(':', '_').lstrip('/')
sanitized_path(file_path) == LStrip(Replace(Replace(file_path, "\\", "/"), ":", "_"), "/")

\* timestamp.strftime('%Y%m%d_%H%M%S'): the microseconds are dropped; the
\* year and the month of the name are those of the same second
strftime(timestamp) == timestamp.second

\* f"{device_id}/{year}/{month:02d}/{sanitized_path}/v{version}_{stamp}.backup"
blob_name_string(d, file_path, version, timestamp) ==
    [device |-> d, path |-> sanitized_path(file_path), version |-> version,
     ts |-> strftime(timestamp)]

\* one call of generate_blob_name, as backup_file makes it (backup_engine.py 149-153)
BN_Call ==
    /\ Len(bn) < 2
    /\ \E file_path \in FilePaths : \E version \in 1..MaxVersion :
       \E timestamp \in Timestamps :
          bn' = Append(bn, [file_path |-> file_path, version |-> version,
                            timestamp |-> timestamp,
                            blob_name |-> blob_name_string(device_id, file_path,
                                                           version, timestamp)])
    /\ UNCHANGED <<envVars, dbVars, store, queueVars, threadVars, urandom, restoreVars,
                   monVars, ub, bl, bq, sb>>

(***************************************************************************)
(* AzureStorageManager.upload_blob and _upload_in_blocks                   *)
(* (azure_client.py 43-181), for one blob name.  ub holds the locals of    *)
(* the call, bl those of the block upload and the object under the name.   *)
(***************************************************************************)
\* payloads: n bytes, each marked with the payload it belongs to
Payloads == {[i \in 1..n |-> <<n, i>>] : n \in 1..MaxDataLen}

\* errors an SDK call can raise
UploadErrors == {"ResourceNotFoundError", "ServiceRequestError"}

\* the mutant waits 2 seconds every time
wait_time_flat(attempt) == 2

\* line 106: wait_time = (attempt + 1) * 2
wait_time(attempt) == (attempt + 1) * 2

\* line 70: data_size > 5 MiB
UsesBlocks(data) == Len(data) > BlockThreshold

\* data[i:i + n]
Slice(data, i, n) ==
    IF i >= Len(data) THEN <<>>
    ELSE SubSeq(data, i + 1, IF i + n < Len(data) THEN i + n ELSE Len(data))

RECURSIVE Concat(_)
\* the object that commit_block_list assembles from the listed blocks
Concat(blocks) == IF blocks = <<>> THEN <<>> ELSE Head(blocks) \o Concat(Tail(blocks))

\* the mutant puts the new block first
StagePrepend(block_list, block_data) == <<block_data>> \o block_list

\* line 148: block_list.append(BlobBlock(block_id)); the uuid names this block only
StageAppend(block_list, block_data) == Append(block_list, block_data)

\* lines 104-111: the attempt raised error; retry after a sleep, or re-raise
UBAfterFailure(error) ==
    IF ub.attempt < ub.max_retries
    THEN [ub EXCEPT !.status = "running",
                    !.attempt = ub.attempt + 1,
                    !.sleeps = Append(ub.sleeps, wait_time(ub.attempt)),
                    !.errors = Append(ub.errors, error)]
    ELSE [ub EXCEPT !.status = "raised", !.errors = Append(ub.errors, error)]

UploadFrame ==
    UNCHANGED <<envVars, dbVars, store, queueVars, threadVars, urandom, restoreVars,
                monVars, bq, sb, bn>>

\* upload_blob(blob_name, data, max_retries=...), lines 43-63
UB_Call ==
    /\ ub.status \in {"none", "returned", "raised"}
    /\ ub.calls < MaxUploadCalls
    /\ \E data \in Payloads : \E max_retries \in 0..MaxRetries :
          ub' = [NoUB EXCEPT !.status = "running", !.data = data,
                             !.max_retries = max_retries, !.calls = ub.calls + 1]
    /\ bl' = [NoBL EXCEPT !.visible = bl.visible, !.commits = bl.commits]
    /\ UploadFrame

\* lines 65-102 for a payload up to the threshold: one attempt.  The put
\* is atomic; get_blob_properties (line 91) can fail after it.
UB_Attempt ==
    /\ ub.status = "running"
    /\ ~UsesBlocks(ub.data)
    /\ \/ /\ ub' = [ub EXCEPT !.status = "returned", !.attempts = ub.attempts + 1]
          /\ bl' = [bl EXCEPT !.visible = ub.data]
       \/ \E error \in UploadErrors :
             /\ ub' = [UBAfterFailure(error) EXCEPT !.attempts = ub.attempts + 1]
             /\ \/ UNCHANGED bl
                \/ bl' = [bl EXCEPT !.visible = ub.data]
    /\ UploadFrame

\* lines 70-72 and 113-131: an attempt for a payload over the threshold
\* enters _upload_in_blocks; delete_blob may fail silently (lines 125-130)
UB_Blocks ==
    /\ ub.status = "running"
    /\ UsesBlocks(ub.data)
    /\ ub' = [ub EXCEPT !.status = "blocks", !.attempts = ub.attempts + 1]
    /\ \E deleted \in BOOLEAN :
          bl' = [NoBL EXCEPT !.status = "staging",
                             !.visible = IF deleted THEN <<>> ELSE bl.visible,
                             !.commits = bl.commits]
    /\ UploadFrame

\* the tries of each block so far, with one more try of the current block
TriesAfter ==
    IF bl.block_attempt = 0 THEN Append(bl.tries, 1)
    ELSE [bl.tries EXCEPT ![Len(bl.tries)] = bl.tries[Len(bl.tries)] + 1]

\* lines 133-163: one stage_block try of the current block
BL_Stage ==
    /\ ub.status = "blocks"
    /\ bl.status = "staging"
    /\ \/ /\ bl' = [bl EXCEPT
                     !.block_list = StageAppend(bl.block_list,
                                                Slice(ub.data, bl.i, block_size)),
                     !.i = bl.i + block_size,
                     !.block_attempt = 0,
                     !.tries = TriesAfter,
                     !.status = IF bl.i + block_size < Len(ub.data)
                                THEN "staging" ELSE "commit"]
          /\ UNCHANGED ub
       \/ /\ bl.block_attempt < BlockAttempts - 1
          /\ bl' = [bl EXCEPT !.block_attempt = bl.block_attempt + 1,
                              !.tries = TriesAfter]
          /\ UNCHANGED ub
       \/ /\ bl.block_attempt >= BlockAttempts - 1
          /\ bl' = [bl EXCEPT !.status = "failed", !.tries = TriesAfter]
          /\ ub' = UBAfterFailure("Exception")
    /\ UploadFrame

\* lines 165-181 and 91-102: commit_block_list, then the properties
BL_Commit ==
    /\ ub.status = "blocks"
    /\ bl.status = "commit"
    /\ \/ /\ bl' = [bl EXCEPT !.status = "done", !.visible = Concat(bl.block_list),
                              !.commits = bl.commits + 1]
          /\ \/ ub' = [ub EXCEPT !.status = "returned"]
             \/ \E error \in UploadErrors : ub' = UBAfterFailure(error)
       \/ /\ bl' = [bl EXCEPT !.status = "failed"]
          /\ \E error \in UploadErrors : ub' = UBAfterFailure(error)
    /\ UploadFrame

(***************************************************************************)
(* should_backup_file applied to one file of any kind.                     *)
(***************************************************************************)
ProbeFiles ==
    [exists : BOOLEAN, kind : {"file", "dir"}, size : 0..(max_size_bytes + 1),
     readable : BOOLEAN, path : SeqsUpTo(PathPieces, MaxProbeLen)]

SB_Probe ==
    /\ sb.status = "none"
    /\ \E file \in ProbeFiles :
          sb' = [status |-> "done", file |-> file, result |-> ShouldBackupFile(file)]
    /\ UNCHANGED <<envVars, dbVars, store, queueVars, threadVars, urandom, restoreVars,
                   monVars, ub, bl, bq, bn>>

(***************************************************************************)
(* Spec and SweepSpec.  The scheduler thread drains and sweeps             *)
(* (main.py 223-250); the main thread drains once, on shutdown             *)
(* (main.py 286-302); the web thread and the monitor enqueue.  One path    *)
(* is in play.  The wrappers keep the history variables of the engine.     *)
(***************************************************************************)
EnginePaths == {"a"}

MaxCalls(t) == IF t = "main" THEN 1 ELSE MaxSchedCalls

\* history: successful uploads, and the sweeps seen at each commit
EngineHistory ==
    /\ uploaded' = uploaded \cup {b.name : b \in store'}
    /\ sweepsAtCommit' = IF Len(backups') > Len(backups)
                         THEN Append(sweepsAtCommit, Len(cleanup_log))
                         ELSE sweepsAtCommit
    /\ UNCHANGED <<queueHist, monHist>>

E_Tick == now < MaxTime /\ Tick /\ EngineHistory /\ UNCHANGED ops

E_FsWrite ==
    /\ ops.fs < MaxFsOps
    /\ \E p \in EnginePaths : FsWrite(p)
    /\ ops' = [ops EXCEPT !.fs = ops.fs + 1]
    /\ EngineHistory

E_FsTouch ==
    /\ ops.fs < MaxFsOps
    /\ \E p \in EnginePaths : FsTouch(p)
    /\ ops' = [ops EXCEPT !.fs = ops.fs + 1]
    /\ EngineHistory

E_FsDelete ==
    /\ ops.fs < MaxFsOps
    /\ \E p \in EnginePaths : FsDelete(p)
    /\ ops' = [ops EXCEPT !.fs = ops.fs + 1]
    /\ EngineHistory

E_AddToQueue ==
    /\ \E p \in EnginePaths : add_to_backup_queue(<<p>>)
    /\ EngineHistory /\ UNCHANGED ops

E_Check(T) ==
    /\ \E t \in T :
          /\ ops.calls[t] < MaxCalls(t)
          /\ PBQ_Check(t)
          /\ ops' = [ops EXCEPT !.calls[t] = ops.calls[t] + 1]
    /\ EngineHistory

E_Swap(T) == (\E t \in T : PBQ_Swap(t)) /\ EngineHistory /\ UNCHANGED ops
E_Drain(T) == (\E t \in T : Drain_Next(t)) /\ EngineHistory /\ UNCHANGED ops
E_Return(T) == (\E t \in T : PBQ_Return(t)) /\ EngineHistory /\ UNCHANGED ops
E_Validate(T) == (\E t \in T : BF_Validate(t)) /\ EngineHistory /\ UNCHANGED ops
E_Read(T) == (\E t \in T : BF_Read(t)) /\ EngineHistory /\ UNCHANGED ops
E_Upload(T) == (\E t \in T : BF_Upload(t)) /\ EngineHistory /\ UNCHANGED ops
E_AbrRead(T) == (\E t \in T : ABR_Read(t)) /\ EngineHistory /\ UNCHANGED ops
E_Insert(T) == (\E t \in T : ABR_Insert(t)) /\ EngineHistory /\ UNCHANGED ops
E_Except(T) == (\E t \in T : BF_Except(t)) /\ EngineHistory /\ UNCHANGED ops

E_Count ==
    /\ Len(cleanup_log) < MaxSweeps
    /\ CL_Count("sched") /\ EngineHistory /\ UNCHANGED ops

E_Select == CL_Select("sched") /\ EngineHistory /\ UNCHANGED ops
E_Commit == CL_Commit("sched") /\ EngineHistory /\ UNCHANGED ops
E_Prune == CL_Prune("sched") /\ EngineHistory /\ UNCHANGED ops

Next ==
    \/ E_FsWrite
    \/ E_FsDelete
    \/ E_AddToQueue
    \/ E_Check(Threads)
    \/ E_Swap(Threads)
    \/ E_Drain(Threads)
    \/ E_Return(Threads)
    \/ E_Validate(Threads)
    \/ E_Read(Threads)
    \/ E_Upload(Threads)
    \/ E_AbrRead(Threads)
    \/ E_Insert(Threads)
    \/ E_Except(Threads)
    \/ E_Count
    \/ E_Select
    \/ E_Commit
    \/ E_Prune

Spec == Init /\ [][Next]_vars

Scheduler == {"sched"}

SweepNext ==
    \/ E_Tick
    \/ E_FsWrite
    \/ E_FsTouch
    \/ E_FsDelete
    \/ E_AddToQueue
    \/ E_Check(Scheduler)
    \/ E_Swap(Scheduler)
    \/ E_Drain(Scheduler)
    \/ E_Return(Scheduler)
    \/ E_Validate(Scheduler)
    \/ E_Read(Scheduler)
    \/ E_Upload(Scheduler)
    \/ E_AbrRead(Scheduler)
    \/ E_Insert(Scheduler)
    \/ E_Except(Scheduler)
    \/ E_Count
    \/ E_Select
    \/ E_Commit
    \/ E_Prune

SweepSpec == Init /\ [][SweepNext]_vars

(***************************************************************************)
(* RestoreSpec: the scheduler thread backs up and sweeps one path; the web *)
(* thread restores rows by id (web_dashboard.py 247-391).                  *)
(***************************************************************************)
R_Restore ==
    /\ ops.restores < MaxRestoreCalls
    /\ \E backup_id \in 1..(MaxRows + 1) : \E fault \in Faults :
          restore_file(backup_id, fault)
    /\ ops' = [ops EXCEPT !.restores = ops.restores + 1]
    /\ EngineHistory

R_RestoreWithProgress ==
    /\ \E backup_id \in 1..(MaxRows + 1) : restore_with_progress(backup_id)
    /\ EngineHistory /\ UNCHANGED ops

R_Tamper ==
    /\ \E name \in BlobNames : TamperBlob(name)
    /\ EngineHistory /\ UNCHANGED ops

RestoreNext ==
    \/ E_FsWrite
    \/ E_AddToQueue
    \/ E_Check(Scheduler)
    \/ E_Swap(Scheduler)
    \/ E_Drain(Scheduler)
    \/ E_Return(Scheduler)
    \/ E_Validate(Scheduler)
    \/ E_Read(Scheduler)
    \/ E_Upload(Scheduler)
    \/ E_AbrRead(Scheduler)
    \/ E_Insert(Scheduler)
    \/ E_Except(Scheduler)
    \/ E_Count
    \/ E_Select
    \/ E_Commit
    \/ E_Prune
    \/ R_Restore
    \/ R_RestoreWithProgress
    \/ R_Tamper

RestoreSpec == Init /\ [][RestoreNext]_vars

(***************************************************************************)
(* UploadSpec: upload_blob calls for one blob name.                        *)
(***************************************************************************)
\* ---- process_backup_queue: the batch loop (backup_engine.py 397-419) ----

\* the snapshots the loop runs over: lists of distinct paths (the queue holds
\* no path twice), never empty (line 378 returns before the loop)
SnapshotPaths == 1..MaxSnapshot
Snapshots ==
    {f \in SeqsUpTo(SnapshotPaths, MaxSnapshot) :
        \A j, k \in DOMAIN f : j # k => f[j] # f[k]}

BatchEntry(batch) == [kind |-> "batch", files |-> batch, seconds |-> 0]
SleepEntry(seconds) == [kind |-> "sleep", files |-> <<>>, seconds |-> seconds]

\* line 399: files_to_backup[i:i + batch_size]
Batch(files, i) ==
    SubSeq(files, i + 1, IF i + batch_size < Len(files) THEN i + batch_size ELSE Len(files))

\* line 418: batch_count < len(files_to_backup) // self.config.batch_size
SleepsAfter(count, n) == count < n \div batch_size

BatchFrame ==
    UNCHANGED <<envVars, dbVars, store, queueVars, threadVars, urandom, restoreVars,
                monVars, ub, bl, sb, bn>>

\* lines 382, 397: the loop starts on a snapshot
BQ_Start ==
    /\ bq.status \in {"none", "done"}
    /\ bq.calls < MaxBatchCalls
    /\ \E files \in Snapshots :
          bq' = [status |-> "loop", files_to_backup |-> files, i |-> 0, batch_count |-> 0,
                 log |-> <<>>, calls |-> bq.calls + 1]
    /\ BatchFrame

\* lines 398-415: the next batch is cut and its files are gone through
BQ_Batch ==
    /\ bq.status = "loop"
    /\ bq.i < Len(bq.files_to_backup)
    /\ bq' = [bq EXCEPT !.status = "delay",
                        !.batch_count = bq.batch_count + 1,
                        !.log = Append(bq.log, BatchEntry(Batch(bq.files_to_backup, bq.i)))]
    /\ BatchFrame

\* lines 417-419: the delay after a batch, then the next value of the range
BQ_Delay ==
    /\ bq.status = "delay"
    /\ bq' = [bq EXCEPT !.status = "loop",
                        !.i = bq.i + batch_size,
                        !.log = IF SleepsAfter(bq.batch_count, Len(bq.files_to_backup))
                                THEN Append(bq.log, SleepEntry(1))
                                ELSE bq.log]
    /\ BatchFrame

\* lines 421-427: the range is exhausted, status 'completed'
BQ_Return ==
    /\ bq.status = "loop"
    /\ bq.i >= Len(bq.files_to_backup)
    /\ bq' = [bq EXCEPT !.status = "done"]
    /\ BatchFrame

U_Call == UB_Call /\ UNCHANGED histVars
U_Attempt == UB_Attempt /\ UNCHANGED histVars
U_Blocks == UB_Blocks /\ UNCHANGED histVars
U_Stage == BL_Stage /\ UNCHANGED histVars
U_Commit == BL_Commit /\ UNCHANGED histVars

UploadNext ==
    \/ U_Call
    \/ U_Attempt
    \/ U_Blocks
    \/ U_Stage
    \/ U_Commit

UploadSpec == Init /\ [][UploadNext]_vars

(***************************************************************************)
(* FilterSpec: one call of should_backup_file.                             *)
(***************************************************************************)
F_Probe == SB_Probe /\ UNCHANGED histVars

FilterNext == F_Probe

FilterSpec == Init /\ [][FilterNext]_vars

B_Start == BQ_Start /\ UNCHANGED histVars
B_Batch == BQ_Batch /\ UNCHANGED histVars
B_Delay == BQ_Delay /\ UNCHANGED histVars
B_Return == BQ_Return /\ UNCHANGED histVars

BatchNext ==
    \/ B_Start
    \/ B_Batch
    \/ B_Delay
    \/ B_Return

BatchSpec == Init /\ [][BatchNext]_vars

(***************************************************************************)
(* NameSpec: two calls of generate_blob_name.                              *)
(***************************************************************************)
N_Call == BN_Call /\ UNCHANGED histVars

NameNext == N_Call

NameSpec == Init /\ [][NameNext]_vars

(***************************************************************************)
(* QueueSpec: two paths, lists of paths handed to add_to_backup_queue,     *)
(* one draining thread.  The wrappers keep the history of the queue.       *)
(***************************************************************************)
Q_AddToQueue ==
    /\ \E file_paths \in SeqsUpTo(Paths, MaxListLen) :
          /\ \A p \in Paths : addCount[p] + Occurrences(file_paths, p) <= MaxAdds
          /\ add_to_backup_queue(file_paths)
          /\ addCount' = [p \in Paths |-> addCount[p] + Occurrences(file_paths, p)]
    /\ UNCHANGED <<bfCalls, drainDup, engineHist, monHist>>

Q_FsDelete ==
    /\ ops.fs < MaxFsOps
    /\ \E p \in Paths : FsDelete(p)
    /\ ops' = [ops EXCEPT !.fs = ops.fs + 1]
    /\ UNCHANGED <<uploaded, sweepsAtCommit, queueHist, monHist>>

Q_Check ==
    /\ ops.calls["sched"] < MaxQueueCalls
    /\ PBQ_Check("sched")
    /\ ops' = [ops EXCEPT !.calls["sched"] = ops.calls["sched"] + 1]
    /\ UNCHANGED <<uploaded, sweepsAtCommit, queueHist, monHist>>

Q_Swap ==
    /\ PBQ_Swap("sched")
    /\ IF pc'["sched"] = "drain"
       THEN /\ drainDup' = [drainDup EXCEPT !["sched"] = {p \in Paths : addCount[p] >= 2}]
            /\ addCount' = [p \in Paths |-> 0]
            /\ bfCalls' = [bfCalls EXCEPT !["sched"] = <<>>]
       ELSE UNCHANGED queueHist
    /\ UNCHANGED <<engineHist, monHist>>

Q_Drain ==
    /\ Drain_Next("sched")
    /\ bfCalls' = IF pc'["sched"] = "bf_validate"
                  THEN [bfCalls EXCEPT !["sched"] =
                           Append(bfCalls["sched"], bf'["sched"].file_path)]
                  ELSE bfCalls
    /\ UNCHANGED <<addCount, drainDup, engineHist, monHist>>

Q_Return == PBQ_Return("sched") /\ UNCHANGED histVars
Q_Validate == BF_Validate("sched") /\ UNCHANGED histVars
Q_Read == BF_Read("sched") /\ UNCHANGED histVars
Q_Upload == BF_Upload("sched") /\ UNCHANGED histVars
Q_AbrRead == ABR_Read("sched") /\ UNCHANGED histVars
Q_Insert == ABR_Insert("sched") /\ UNCHANGED histVars
Q_Except == BF_Except("sched") /\ UNCHANGED histVars

QueueNext ==
    \/ Q_AddToQueue
    \/ Q_FsDelete
    \/ Q_Check
    \/ Q_Swap
    \/ Q_Drain
    \/ Q_Return
    \/ Q_Validate
    \/ Q_Read
    \/ Q_Upload
    \/ Q_AbrRead
    \/ Q_Insert
    \/ Q_Except

QueueSpec == Init /\ [][QueueNext]_vars

(***************************************************************************)
(* BackupFileHandler and FileMonitor.stop_monitoring                       *)
(* (src/src/file_monitoring.py).  _pending_files is a dict: insertion      *)
(* order, one entry per path.  One threading.Timer is referenced at a      *)
(* time; a timer whose wait has ended can no longer be cancelled and its   *)
(* callback runs once it gets _pending_lock.                               *)
(***************************************************************************)
PendingPaths == {pending_files[i].path : i \in DOMAIN pending_files}

\* self._pending_files[file_path] = datetime.now()
PutPending(p, t) ==
    IF p \in PendingPaths
    THEN [i \in DOMAIN pending_files |->
             IF pending_files[i].path = p THEN [path |-> p, add_time |-> t]
             ELSE pending_files[i]]
    ELSE Append(pending_files, [path |-> p, add_time |-> t])

\* _should_process_file: the file exists and passes the engine's filters
should_process_file(p) == fs[p].exists /\ should_backup_file(p)

\* the mutant leaves a timer that is already armed as it is
KeepTimer(timer) ==
    IF timer.armed THEN timer ELSE [armed |-> TRUE, due |-> now + debounce_seconds]

\* lines 68-76: the old timer is cancelled, a new one is started
ResetTimer(timer) == [armed |-> TRUE, due |-> now + debounce_seconds]

\* lines 62-76
add_to_pending(p) ==
    /\ pending_files' = PutPending(p, now)
    /\ debounce_timer' = ResetTimer(debounce_timer)

\* on_modified / on_created / on_moved (lines 110-148), on the observer thread
on_modified(p) ==
    /\ mon_phase \in {"running", "handler_stopped"}
    /\ IF should_process_file(p)
       THEN add_to_pending(p)
       ELSE UNCHANGED <<pending_files, debounce_timer>>
    /\ UNCHANGED <<envVars, dbVars, store, queueVars, threadVars, callbacks, mon_phase,
                   urandom, restoreVars, callVars>>

\* threading.Timer.run: the wait ended and the timer was not cancelled
TimerExpire ==
    /\ debounce_timer.armed
    /\ now >= debounce_timer.due
    /\ debounce_timer' = [debounce_timer EXCEPT !.armed = FALSE]
    /\ callbacks' = callbacks + 1
    /\ UNCHANGED <<envVars, dbVars, store, queueVars, threadVars, pending_files, mon_phase,
                   urandom, restoreVars, callVars>>

\* the mutant lets an entry through one second early
StableEarly(add_time) == now - add_time >= debounce_seconds - 1

\* the mutant asks for strictly more than the debounce period
StableStrict(add_time) == now - add_time > debounce_seconds

\* line 89: (now - add_time).total_seconds() >= self.debounce_seconds
Stable(add_time) == now - add_time >= debounce_seconds

YoungEntry(e) == ~Stable(e.add_time)

ToProcessEntry(e) == Stable(e.add_time) /\ fs[e.path].exists /\ should_process_file(e.path)

\* lines 85-91: files_to_process, in the dict's order
FilesToProcess ==
    [i \in DOMAIN SelectSeq(pending_files, ToProcessEntry) |->
        SelectSeq(pending_files, ToProcessEntry)[i].path]

\* lines 78-108, under _pending_lock
process_pending_files ==
    /\ pending_files' = SelectSeq(pending_files, YoungEntry)
    /\ sync_status' = [p \in Paths |->
                         IF p \in Range(FilesToProcess)
                         THEN update_sync_status(p, fs[p].mtime, "pending", NoText)[p]
                         ELSE sync_status[p]]
    /\ backup_queue' = AppendNew(backup_queue, FilesToProcess)
    /\ UNCHANGED <<envVars, backups, cleanup_log, store, is_backing_up, threadVars,
                   urandom, restoreVars, callVars>>

\* the callback of an expired timer
TimerCallback ==
    /\ callbacks > 0
    /\ callbacks' = callbacks - 1
    /\ process_pending_files
    /\ UNCHANGED <<debounce_timer, mon_phase>>

\* BackupFileHandler.stop (lines 161-167), from stop_monitoring line 236
stop ==
    /\ mon_phase = "running"
    /\ mon_phase' = "handler_stopped"
    /\ debounce_timer' = [debounce_timer EXCEPT !.armed = FALSE]
    /\ process_pending_files
    /\ UNCHANGED callbacks

\* stop_monitoring lines 238-242: the observer delivers no more events
observer_stop ==
    /\ mon_phase = "handler_stopped"
    /\ mon_phase' = "stopped"
    /\ UNCHANGED <<envVars, dbVars, store, queueVars, threadVars, pending_files,
                   debounce_timer, callbacks, urandom, restoreVars, callVars>>

(***************************************************************************)
(* MonitorSpec.  Timers and their callbacks run before the clock moves on: *)
(* the clock's tick is coarse against the latency of the timer thread.     *)
(***************************************************************************)
\* the event opens a new burst of its path
NewBurst(p) == lastEvent[p] = NULL \/ now - lastEvent[p] >= debounce_seconds

M_Tick ==
    /\ now < MaxMonTime
    /\ ~(debounce_timer.armed /\ now >= debounce_timer.due)
    /\ callbacks = 0
    /\ now' = now + 1
    /\ UNCHANGED <<fs, dbVars, store, queueVars, threadVars, monVars, histVars,
                   urandom, restoreVars, callVars>>

M_FsDelete ==
    /\ \E p \in Paths : FsDelete(p)
    /\ UNCHANGED histVars

M_Modify ==
    /\ \E p \in Paths :
          /\ NewBurst(p) \/ burstCount[p] < MaxBurst
          /\ on_modified(p)
          /\ IF should_process_file(p)
             THEN /\ lastEvent' = [lastEvent EXCEPT ![p] = now]
                  /\ burstCount' = [burstCount EXCEPT ![p] =
                                       IF NewBurst(p) THEN 1 ELSE burstCount[p] + 1]
                  /\ enqCount' = [enqCount EXCEPT ![p] =
                                     IF NewBurst(p) THEN 0 ELSE enqCount[p]]
                  /\ dropCount' = [dropCount EXCEPT ![p] =
                                      IF NewBurst(p) THEN 0 ELSE dropCount[p]]
             ELSE UNCHANGED monHist
    /\ UNCHANGED <<engineHist, queueHist>>

\* history of a pass over _pending_files: enqueued and dropped entries
MonitorHistory ==
    /\ enqCount' = [p \in Paths |->
                      IF p \in Range(FilesToProcess) THEN enqCount[p] + 1 ELSE enqCount[p]]
    /\ dropCount' = [p \in Paths |->
                       IF p \in PendingPaths \ {pending_files'[i].path : i \in DOMAIN pending_files'}
                          /\ p \notin Range(FilesToProcess)
                       THEN dropCount[p] + 1 ELSE dropCount[p]]
    /\ UNCHANGED <<lastEvent, burstCount, engineHist, queueHist>>

M_TimerExpire == TimerExpire /\ UNCHANGED histVars
M_TimerCallback == TimerCallback /\ MonitorHistory
M_Stop == stop /\ MonitorHistory
M_ObserverStop == observer_stop /\ UNCHANGED histVars

MonitorNext ==
    \/ M_Tick
    \/ M_FsDelete
    \/ M_Modify
    \/ M_TimerExpire
    \/ M_TimerCallback
    \/ M_Stop
    \/ M_ObserverStop

MonitorSpec == Init /\ [][MonitorNext]_vars

(***************************************************************************)
(* DebounceSpec - the running monitor under an endless stream of events.   *)
(* The clock is kept relative to the present: a second that passes moves   *)
(* every recorded time one second into the past.  The code compares only   *)
(* differences (line 89, and the timer's remaining wait), so times more    *)
(* than debounce_seconds back, and timers already due, are kept at that    *)
(* limit.  The timer thread and its callback are scheduled fairly, and     *)
(* time goes on.                                                           *)
(***************************************************************************)
Later(t, limit) == IF t - 1 < limit THEN limit ELSE t - 1

\* one second passes: datetime.now() and the timer's wait move on
L_Second ==
    /\ ~(debounce_timer.armed /\ now >= debounce_timer.due)
    /\ callbacks = 0
    /\ pending_files' = [i \in DOMAIN pending_files |->
                            [pending_files[i] EXCEPT
                                !.add_time = Later(@, now - debounce_seconds)]]
    /\ debounce_timer' = [debounce_timer EXCEPT !.due = Later(@, now)]
    /\ UNCHANGED <<envVars, dbVars, store, queueVars, threadVars, callbacks, mon_phase,
                   urandom, restoreVars, callVars, histVars>>

L_Modify ==
    /\ \E p \in Paths : on_modified(p)
    /\ UNCHANGED histVars

L_TimerExpire == TimerExpire /\ UNCHANGED histVars
L_TimerCallback == TimerCallback /\ UNCHANGED histVars

DebounceNext ==
    \/ L_Second
    \/ M_FsDelete
    \/ L_Modify
    \/ L_TimerExpire
    \/ L_TimerCallback

DebounceSpec ==
    /\ Init
    /\ [][DebounceNext]_vars
    /\ WF_vars(L_Second)
    /\ WF_vars(L_TimerExpire)
    /\ WF_vars(L_TimerCallback)

(***************************************************************************)
(* DeviceSpec - the sweeps of device_id while a second installation, whose *)
(* device id begins with the same characters, backs up into the same       *)
(* container and catalog.                                                  *)
(***************************************************************************)
OtherDevice == "dev2"

\* backup_file on the other device (backup_engine.py 149-208): the object
\* and the row it commits
OtherBackup(p) ==
    LET version == get_next_version(p, OtherDevice)
        name == generate_blob_name(OtherDevice, p, version, now)
    IN /\ fs[p].exists
       /\ Len(backups) < MaxRows
       /\ RowsOf(p, OtherDevice) = {}
       /\ store' = PutBlob(name, encrypt_data(compress_file_data(fs[p].content), 0), now)
       /\ backups' = Append(backups,
                        [file_path |-> p, version |-> version, device_id |-> OtherDevice,
                         blob_name |-> name, backup_date |-> now,
                         checksum |-> generate_data_hash(fs[p].content), salt |-> 0,
                         is_deleted |-> FALSE])
       /\ UNCHANGED <<envVars, sync_status, cleanup_log, queueVars, threadVars, monVars,
                      urandom, restoreVars, callVars>>

D_OtherBackup ==
    /\ \E p \in EnginePaths : OtherBackup(p)
    /\ EngineHistory /\ UNCHANGED ops

DeviceNext ==
    \/ E_Tick
    \/ E_FsWrite
    \/ E_AddToQueue
    \/ E_Check(Scheduler)
    \/ E_Swap(Scheduler)
    \/ E_Drain(Scheduler)
    \/ E_Return(Scheduler)
    \/ E_Validate(Scheduler)
    \/ E_Read(Scheduler)
    \/ E_Upload(Scheduler)
    \/ E_AbrRead(Scheduler)
    \/ E_Insert(Scheduler)
    \/ E_Except(Scheduler)
    \/ E_Count
    \/ E_Select
    \/ E_Commit
    \/ E_Prune
    \/ D_OtherBackup

DeviceSpec == Init /\ [][DeviceNext]_vars

(***************************************************************************)
(* PipelineSpec - the monitor feeding the scheduler's drains: events, the  *)
(* debounce timer and its callback, and process_backup_queue on one clock. *)
(***************************************************************************)
\* an event on a path of the engine, opening a new burst
P_Modify ==
    /\ \E p \in EnginePaths :
          /\ NewBurst(p)
          /\ should_process_file(p)
          /\ on_modified(p)
          /\ lastEvent' = [lastEvent EXCEPT ![p] = now]
          /\ burstCount' = [burstCount EXCEPT ![p] = 1]
          /\ enqCount' = [enqCount EXCEPT ![p] = 0]
          /\ dropCount' = [dropCount EXCEPT ![p] = 0]
    /\ UNCHANGED <<engineHist, queueHist>>

PipelineNext ==
    \/ M_Tick
    \/ P_Modify
    \/ M_TimerExpire
    \/ M_TimerCallback
    \/ E_Check(Scheduler)
    \/ E_Swap(Scheduler)
    \/ E_Drain(Scheduler)
    \/ E_Return(Scheduler)
    \/ E_Validate(Scheduler)
    \/ E_Read(Scheduler)
    \/ E_Upload(Scheduler)
    \/ E_AbrRead(Scheduler)
    \/ E_Insert(Scheduler)
    \/ E_Except(Scheduler)

PipelineSpec == Init /\ [][PipelineNext]_vars

(***************************************************************************)
(* Properties.                                                             *)
(***************************************************************************)

\* C1: every row of backups names a blob for which upload_blob returned
\* success earlier, and a thread inside add_backup_record holds a blob name
\* whose upload has succeeded.
C1_RecordAfterUpload ==
    /\ \A i \in RowIds : backups[i].blob_name \in uploaded
    /\ \A t \in Threads : pc[t] \in {"abr_read", "abr_insert"} => bf[t].blob_name \in uploaded

\* C1 witness: a row has been committed after an upload
C1_Witness == \E i \in RowIds : backups[i].blob_name \in uploaded

\* C2: when backup_file's try block raised, the step of the handler adds no
\* row, leaves the path's sync_status at 'error' with the message, and
\* backup_file returns (None) to the drain loop.
C2_FailureRecorded ==
    [][\A t \in Threads :
          (pc[t] = "bf_except" /\ pc'[t] # "bf_except") =>
              /\ backups' = backups
              /\ sync_status'[bf[t].file_path].status = "error"
              /\ sync_status'[bf[t].file_path].error_message = bf[t].error
              /\ pc'[t] = "drain"]_vars

\* C3: rows of one (file_path, device_id), in commit order, carry strictly
\* increasing versions, whether the earlier rows are tombstoned or not; as
\* long as no sweep has run the versions of a pair are 1, 2, 3, ...
C3_VersionsIncrease ==
    /\ \A i, j \in RowIds :
          (/\ i < j
           /\ backups[i].file_path = backups[j].file_path
           /\ backups[i].device_id = backups[j].device_id)
          => backups[i].version < backups[j].version
    /\ cleanup_log = <<>> =>
          \A p \in Paths :
             {backups[i].version : i \in RowsOf(p, device_id)} =
                1..Cardinality(RowsOf(p, device_id))

\* C3 witness: a row committed after a sweep tombstoned an earlier row of
\* the pair
C3_Witness ==
    \E i, j \in RowIds :
       /\ i < j
       /\ backups[i].file_path = backups[j].file_path
       /\ backups[i].is_deleted
       /\ sweepsAtCommit[j] >= 1
       /\ sweepsAtCommit[i] = 0

\* C4: get_next_version is 1 + the maximum version over all rows of the
\* pair, tombstoned rows included, and 1 when the pair has no rows.
C4_NextVersionOverAllRows ==
    \A p \in Paths :
       get_next_version(p, device_id) =
          IF RowsOf(p, device_id) = {} THEN 1
          ELSE 1 + SetMax({backups[i].version : i \in RowsOf(p, device_id)})

\* C5: no add_backup_record of the pair commits between a call's read of
\* the next version and its insert, and no call loses its insert to the
\* UNIQUE constraint.
C5_ReadAndInsertAtomic ==
    [][\A t \in Threads :
          /\ (pc[t] = "abr_insert" /\ pc'[t] = "abr_insert")
                => Len(backups') = Len(backups)
          /\ (pc[t] = "abr_insert" /\ pc'[t] # "abr_insert")
                => Len(backups') = Len(backups) + 1]_vars

\* C6: at most one thread is inside the drain loop of process_backup_queue.
C6_SingleDrain == Cardinality({t \in Threads : pc[t] \in DrainStates}) <= 1

\* C7: the queue never holds a path twice; a step that changes the queue
\* either swaps it out or appends paths that were not queued, and a request
\* naming only queued paths leaves the queue as it was.
C7_QueueIsSet ==
    [][/\ NoDuplicates(backup_queue')
       /\ (backup_queue' # backup_queue /\ backup_queue' # <<>>) =>
             /\ Len(backup_queue') > Len(backup_queue)
             /\ SubSeq(backup_queue', 1, Len(backup_queue)) = backup_queue
       /\ ((\E p \in Paths : addCount'[p] > addCount[p])
           /\ \A p \in Paths : addCount'[p] > addCount[p] => p \in Range(backup_queue))
             => backup_queue' = backup_queue]_vars

\* C7 witness: a path requested twice is queued once
C7_Witness ==
    \E p \in Paths : addCount[p] >= 2 /\ Occurrences(backup_queue, p) = 1

\* C8: a drain hands a path to backup_file at most once, however often the
\* path was requested before the drain began.
C8_OneAttemptPerDrain ==
    \A t \in Threads : \A p \in Paths : Occurrences(bfCalls[t], p) <= 1

\* C8 witness: a drain has called backup_file on a path that was requested
\* twice before the drain began
C8_Witness ==
    \E t \in Threads : \E p \in drainDup[t] : Occurrences(bfCalls[t], p) = 1

\* every recorded event is more than the debounce period old
Quiet == \A q \in Paths : lastEvent[q] # NULL => now > lastEvent[q] + debounce_seconds

\* C9: a burst of events on an eligible path is enqueued at most once, and
\* once the events are followed by quiet, with the monitor running and the
\* path still eligible, exactly once.
C9_DebounceOneEnqueue ==
    \A p \in Paths :
       lastEvent[p] # NULL =>
          /\ enqCount[p] <= 1
          /\ (Quiet /\ mon_phase = "running" /\ dropCount[p] = 0) => enqCount[p] = 1

\* C9 witness: a burst of several events, then quiet, and one enqueue
C9_Witness ==
    \E p \in Paths :
       /\ burstCount[p] >= 2
       /\ Quiet
       /\ mon_phase = "running"
       /\ enqCount[p] = 1
       /\ p \in Range(backup_queue)

\* the bounds of the sweep: at most max_versions_per_file live rows per
\* path, none older than the retention period
SweepBounds ==
    /\ \A p \in Paths : Cardinality(LiveRowsOf(p, device_id)) <= max_versions_per_file
    /\ \A i \in RowIds :
          (backups[i].device_id = device_id /\ ~backups[i].is_deleted)
             => backups[i].backup_date >= now - retention_days

\* C10: in the state that the commit of cleanup_old_versions produces, the
\* bounds of the sweep hold.
C10_SweepBoundsAtCommit ==
    [][(pc["sched"] = "cl_commit" /\ pc'["sched"] = "cl_prune") => SweepBounds']_vars

\* the rows of highest version among the rows in S, at most n of them
Newest(S, n) ==
    {i \in S : Cardinality({j \in S : backups[j].version > backups[i].version}) < n}

\* C11: for a path that the count query found above max_versions_per_file,
\* the commit of the sweep leaves non-deleted exactly the newest
\* max_versions_per_file rows (less those the retention step removes), and
\* get_next_version then returns the highest version + 1.
C11_CountStepKeepsNewest ==
    [][(pc["sched"] = "cl_commit" /\ pc'["sched"] = "cl_prune") =>
          \A p \in cl["sched"].files_to_clean :
             LET before == LiveRowsOf(p, device_id)
                 kept == {i \in Newest(before, max_versions_per_file) :
                             backups[i].backup_date >= now - retention_days}
             IN /\ {i \in RowIds' : backups'[i].file_path = p /\ ~backups'[i].is_deleted} = kept
                /\ kept # {} =>
                      get_next_version(p, device_id)' =
                         SetMax({backups[i].version : i \in before}) + 1]_vars

\* C12: the record that a commit adds can be restored at once: every check
\* of restore_file passes and the bytes obtained are the bytes the backup
\* read, with the record's checksum.
C12_RoundTrip ==
    [][Len(backups') > Len(backups) =>
          (/\ RestoreStep(Len(backups)) = "write"
           /\ generate_data_hash(RestoredData(Len(backups))) =
                 backups[Len(backups)].checksum)']_vars

\* C13: a restore_file call that returns False leaves the destination as
\* it was: absent if it was absent, unchanged if it existed.
C13_FailedRestoreLeavesDest == [][~rf'.result => dest' = dest]_vars

\* C14: get_backup_by_id yields no tombstoned row, and restore_file of an
\* id that is absent or tombstoned returns False at the lookup, before any
\* download, with the destination untouched.
C14_DeletedRowsInvisible ==
    [][/\ \A id \in 1..(MaxRows + 1) : \A i \in get_backup_by_id(id) : ~backups[i].is_deleted
       /\ (ops'.restores > ops.restores
           /\ (rf'.backup_id \notin RowIds \/ backups[rf'.backup_id].is_deleted))
             => /\ ~rf'.result
                /\ rf'.step = "lookup"
                /\ dest' = dest]_vars

\* C14 witness: restore_file was called for a tombstoned row while the
\* destination held an earlier restore
C14_Witness ==
    /\ rf.backup_id \in RowIds
    /\ backups[rf.backup_id].is_deleted
    /\ rf.step = "lookup"
    /\ dest.exists

\* the file's content is the content of the latest live backup of the path
SameAsLatest(p) ==
    /\ fs[p].exists
    /\ HasLatest(p, device_id)
    /\ generate_file_hash(p) = get_latest_backup(p, device_id).checksum

\* the file's content differs from the latest live backup of the path
DiffersFromLatest(p) ==
    /\ fs[p].exists
    /\ HasLatest(p, device_id)
    /\ generate_file_hash(p) # get_latest_backup(p, device_id).checksum

\* C15: a file whose content hash equals the latest backup's checksum needs
\* no backup, also when its mtime is later than the latest backup_date.
C15_TouchNeedsNoBackup ==
    \A p \in EnginePaths : SameAsLatest(p) => ~needs_backup(p)

\* C16: a file whose content differs from its latest live backup needs a
\* backup whatever its mtime, and a backup_file call that validates it goes
\* on to read and upload it.
C16_ChangedContentNeedsBackup ==
    [][\A p \in EnginePaths : DiffersFromLatest(p) =>
          /\ needs_backup(p)
          /\ \A t \in Threads :
                (pc[t] = "bf_validate" /\ bf[t].file_path = p /\ pc'[t] # "bf_validate")
                   => pc'[t] = "bf_read"]_vars

\* C16 witness: a backup_file call has passed validation for a file whose
\* content differs from the latest backup while its mtime is not later than
\* the latest backup_date
C16_Witness ==
    /\ pc["sched"] = "bf_read"
    /\ DiffersFromLatest(bf["sched"].file_path)
    /\ fs[bf["sched"].file_path].mtime <=
          get_latest_backup(bf["sched"].file_path, device_id).backup_date

\* C17: right after a backup_file call commits its record, with the file
\* as it was read, needs_backup is False; and a backup_file call that finds
\* needs_backup False adds no record and uploads nothing.
C17_NoBackupAfterSuccess ==
    [][\A t \in Threads :
          /\ \A p \in EnginePaths :
                (/\ pc[t] = "abr_insert"
                 /\ pc'[t] # "abr_insert"
                 /\ bf[t].file_path = p
                 /\ Len(backups') > Len(backups)
                 /\ fs[p].exists
                 /\ generate_file_hash(p) = bf[t].checksum)
                   => ~needs_backup(p)'
          /\ (/\ pc[t] = "bf_validate"
              /\ pc'[t] # "bf_validate"
              /\ ~needs_backup(bf[t].file_path))
                => /\ pc'[t] # "bf_read"
                   /\ backups' = backups
                   /\ store' = store]_vars

\* C17 witness: a second backup_file call is about to validate a file that
\* has a committed backup and has not been touched since
C17_Witness ==
    /\ pc["sched"] = "bf_validate"
    /\ SameAsLatest(bf["sched"].file_path)
    /\ ~needs_backup(bf["sched"].file_path)

C19_ShutdownDrains ==
    [][(pc["main"] = "idle" /\ pc'["main"] = "ret_already_running")
          => backup_queue = <<>>]_vars

\* C20: no step removes a row of backups, and a step changes an existing
\* row only by setting is_deleted of a live row to TRUE.
C20_RowsOnlyTombstoned ==
    [][/\ Len(backups') >= Len(backups)
       /\ \A i \in RowIds :
             \/ backups'[i] = backups[i]
             \/ /\ ~backups[i].is_deleted
                /\ backups'[i] = [backups[i] EXCEPT !.is_deleted = TRUE]]_vars

\* C20 witness: a sweep has tombstoned a row while another row is live
C20_Witness ==
    /\ \E i \in RowIds : backups[i].is_deleted
    /\ \E i \in RowIds : ~backups[i].is_deleted

\* C21: a step adds a backups row exactly when it sets the path's
\* sync_status to completed with last_backup set: the row and the status
\* are committed together, and an add_backup_record call that fails after
\* its INSERT leaves neither.
C21_RowAndStatusTogether ==
    [][/\ Len(backups') > Len(backups) =>
             sync_status'[backups'[Len(backups')].file_path] =
                [status |-> "completed", last_modified |-> now,
                 last_backup |-> now, error_message |-> NoText]
       /\ Len(backups') <= Len(backups) + 1
       /\ \A p \in Paths :
             (sync_status'[p] # sync_status[p] /\ sync_status'[p].status = "completed")
                => /\ Len(backups') = Len(backups) + 1
                   /\ backups'[Len(backups')].file_path = p
       /\ \A t \in Threads :
             (pc[t] = "abr_insert" /\ pc'[t] = "bf_except")
                => backups' = backups /\ sync_status' = sync_status]_vars

\* C21 witness: an add_backup_record call failed after its INSERT and was
\* rolled back, next to a call that committed
C21_Witness ==
    /\ \E t \in Threads : pc[t] = "bf_except" /\ bf[t].error = "OperationalError"
    /\ \E i \in RowIds : sync_status[backups[i].file_path].status = "completed"

\* C22: two generate_blob_name calls for different paths or different
\* versions yield different names.
C22_NamesDistinct ==
    \A i, j \in DOMAIN bn :
       (bn[i].file_path # bn[j].file_path \/ bn[i].version # bn[j].version)
          => bn[i].blob_name # bn[j].blob_name

C24_NotFoundNotRetried ==
    [][(Len(ub'.errors) = Len(ub.errors) + 1
        /\ ub'.errors[Len(ub'.errors)] = "ResourceNotFoundError")
          => /\ ub'.status = "raised"
             /\ ub'.sleeps = ub.sleeps]_vars

\* complete payloads
IsComplete(object) == object = <<>> \/ object \in Payloads

\* C30: the block list is committed only when it holds every block of the
\* payload in payload order, each of at most block_size bytes; no block is
\* tried more than 3 times; a block that fails 3 times ends the block
\* upload without a commit; the object under the name is always absent or
\* a complete payload.
C30_BlocksThenCommit ==
    [][/\ bl'.commits > bl.commits =>
             /\ Concat(bl.block_list) = ub.data
             /\ \A k \in DOMAIN bl.block_list :
                   bl.block_list[k] = Slice(ub.data, (k - 1) * block_size, block_size)
             /\ bl'.visible = ub.data
       /\ \A k \in DOMAIN bl'.tries : bl'.tries[k] <= BlockAttempts
       /\ (bl.status = "staging" /\ bl'.status = "failed") =>
             /\ bl'.tries[Len(bl'.tries)] = BlockAttempts
             /\ bl'.commits = bl.commits
             /\ bl'.visible = bl.visible
       /\ bl'.status = "failed" => bl'.commits = bl.commits
       /\ IsComplete(bl'.visible)]_vars

\* C30 witness: a payload of three blocks was committed after one of its
\* blocks took three tries
C30_Witness ==
    /\ bl.status = "done"
    /\ Len(bl.block_list) = 3
    /\ \E k \in DOMAIN bl.tries : bl.tries[k] = BlockAttempts
    /\ bl.visible = ub.data

\* the path matches an exclude pattern by its basename or its relative path
Excluded(path) ==
    \E pattern \in exclude_patterns :
       fnmatch(basename(path), pattern) \/ fnmatch(relpath(path), pattern)

\* C25: should_backup_file answers True exactly for an existing regular
\* readable file of at most the maximum size that no exclude pattern
\* matches.
C25_EligibleIff ==
    sb.status = "done" =>
       (sb.result <=> /\ sb.file.exists
                      /\ sb.file.kind = "file"
                      /\ sb.file.readable
                      /\ sb.file.size <= max_size_bytes
                      /\ ~Excluded(sb.file.path))

\* C26: a restore run with a progress callback ends as the same restore
\* without a callback does when no I/O fault strikes: True with the
\* restored bytes at the destination when every check passes.
C26_CallbackSameOutcome ==
    [][(rf'.callback /\ rf' # rf) =>
          /\ rf'.result = (RestoreStep(rf'.backup_id) = "write")
          /\ rf'.result =>
                dest' = [exists |-> TRUE, content |-> RestoredData(rf'.backup_id)]]_vars

\* C27: a drain ends with status completed, after it has gone through
\* every path of its snapshot, whatever failed on the way.
C27_DrainCompletes ==
    [][(pc["sched"] \in DrainStates /\ pc'["sched"] \notin DrainStates) =>
          /\ pc'["sched"] = "ret_completed"
          /\ pos["sched"] > Len(files_to_backup["sched"])]_vars

\* C28: the swap moves the whole queue into the snapshot and empties the
\* queue in one step; every other step that changes the queue only appends
\* to it and leaves the snapshot alone; the drain hands only paths of its
\* snapshot to backup_file.
C28_SnapshotIsAtomic ==
    [][/\ (pc["sched"] = "pbq_lock" /\ pc'["sched"] = "drain") =>
             /\ files_to_backup'["sched"] = backup_queue
             /\ backup_queue' = <<>>
       /\ (backup_queue' # backup_queue
           /\ ~(pc["sched"] = "pbq_lock" /\ pc'["sched"] = "drain")) =>
             /\ Len(backup_queue') > Len(backup_queue)
             /\ SubSeq(backup_queue', 1, Len(backup_queue)) = backup_queue
             /\ files_to_backup' = files_to_backup
             /\ bfCalls' = bfCalls
       /\ pc'["sched"] = "bf_validate" =>
             bf'["sched"].file_path \in Range(files_to_backup'["sched"])
       /\ (pc["sched"] \in DrainStates /\ pc'["sched"] \in DrainStates) =>
             files_to_backup'["sched"] = files_to_backup["sched"]]_vars

\* C28 witness: while a drain works on its snapshot, the queue holds a path
\* that was enqueued after the swap and is not in the snapshot
C28_Witness ==
    /\ pc["sched"] \in DrainStates
    /\ files_to_backup["sched"] # <<>>
    /\ \E p \in Range(backup_queue) : p \notin Range(files_to_backup["sched"])

BatchesOf(log) == SelectSeq(log, LAMBDA e : e.kind = "batch")

RECURSIVE Flatten(_)
Flatten(batches) ==
    IF batches = <<>> THEN <<>> ELSE Head(batches).files \o Flatten(Tail(batches))

\* C29: the batches are consecutive slices of the snapshot, in queue order
\* and of at most batch_size paths each, every path in exactly one of them;
\* there is a one-second sleep between every two consecutive batches and
\* none after the last one.
C29_BatchesAndSleeps ==
    /\ \A k \in DOMAIN bq.log :
          /\ bq.log[k].kind = "batch" =>
                /\ Len(bq.log[k].files) \in 1..batch_size
                /\ k < Len(bq.log) => bq.log[k + 1] = SleepEntry(1)
          /\ bq.log[k].kind = "sleep" =>
                /\ k > 1 /\ bq.log[k - 1].kind = "batch"
                /\ bq.status = "done" => k < Len(bq.log)
    /\ Flatten(BatchesOf(bq.log))
          = SubSeq(bq.files_to_backup, 1, Len(Flatten(BatchesOf(bq.log))))
    /\ bq.status = "done" => Flatten(BatchesOf(bq.log)) = bq.files_to_backup

\* C31: the step that ends cleanup_old_versions either commits every
\* tombstone of both retention steps together with exactly one new
\* cleanup_log row counting them, or fails and leaves the backups table and
\* cleanup_log as they were; no other step writes cleanup_log.
C31_SweepIsOneTransaction ==
    [][/\ (pc["sched"] = "cl_commit" /\ pc'["sched"] = "cl_prune") =>
             /\ Len(cleanup_log') = Len(cleanup_log) + 1
             /\ SubSeq(cleanup_log', 1, Len(cleanup_log)) = cleanup_log
             /\ cleanup_log'[Len(cleanup_log')].files_cleaned
                   = Cardinality({i \in RowIds :
                                     backups'[i].is_deleted /\ ~backups[i].is_deleted})
       /\ (pc["sched"] = "cl_commit" /\ pc'["sched"] = "idle") =>
             /\ backups' = backups
             /\ cleanup_log' = cleanup_log
       /\ cleanup_log' # cleanup_log =>
             pc["sched"] = "cl_commit" /\ pc'["sched"] = "cl_prune"]_vars

\* C31 witness: a sweep failed in its transaction while rows were due for a
\* tombstone, and none of them carries one
C31_Witness ==
    /\ cl["sched"].error # "NULL"
    /\ pc["sched"] = "idle"
    /\ \E p \in FilesToClean(device_id, max_versions_per_file) :
          OldVersions(p, device_id, max_versions_per_file) # {}

\* C32: every pending entry carries the time of the latest event recorded
\* for its path, and a pass over the pending map (timer callback or stop)
\* enqueues a path only when that event is at least debounce_seconds old.
C32_QuietBeforeEnqueue ==
    [][/\ \A i \in DOMAIN pending_files' :
             pending_files'[i].add_time = lastEvent'[pending_files'[i].path]
       /\ \A p \in Paths :
             enqCount'[p] > enqCount[p] =>
                /\ lastEvent[p] # NULL
                /\ now - lastEvent[p] >= debounce_seconds]_vars

\* C32 witness: a second event restarted the quiet period of a pending path,
\* and the path was enqueued when that event was debounce_seconds old
C32_Witness ==
    \E p \in Paths :
       /\ burstCount[p] >= 2
       /\ enqCount[p] >= 1
       /\ now - lastEvent[p] = debounce_seconds
       /\ p \notin PendingPaths

\* C33: the step of BackupFileHandler.stop leaves the pending map empty and
\* every path that was pending and is still eligible in the backup queue.
C33_StopFlushesPending ==
    [][(mon_phase = "running" /\ mon_phase' = "handler_stopped") =>
          /\ pending_files' = <<>>
          /\ \A p \in PendingPaths :
                should_process_file(p) => p \in Range(backup_queue')]_vars

\* C34: no step sets a non-null sync_status.last_backup back to null.
C34_LastBackupStaysSet ==
    [][\A p \in Paths :
          sync_status[p].last_backup # NULL => sync_status'[p].last_backup # NULL]_vars

\* C35: when backup_file skips a path marked 'pending' because its file
\* needs no backup, the path is no longer reported by
\* get_files_needing_backup; nothing else in the drain writes the path's
\* status, so this is what the drain leaves behind.
C35_SkippedPathNotReported ==
    [][\A p \in Paths :
          (/\ pc["sched"] = "bf_validate"
           /\ pc'["sched"] = "drain"
           /\ bf["sched"].file_path = p
           /\ sync_status[p].status = "pending"
           /\ should_backup_file(p)
           /\ ~needs_backup(p))
             => p \notin get_files_needing_backup(device_id)']_vars

\* C36: the version embedded in a row's blob_name is the row's version.
C36_NameVersionIsRowVersion ==
    \A i \in RowIds : backups[i].blob_name.version = backups[i].version

C40_FlagClearedAfterDrain ==
    [][/\ \A t \in Threads :
             /\ (/\ pc[t] \in DrainStates
                 /\ pc'[t] \in {"ret_completed", "ret_error"}
                 /\ \A u \in Threads \ {t} : pc[u] \notin DrainStates)
                   => ~is_backing_up'
             /\ (pc'[t] \in {"ret_empty_queue", "ret_already_running"} /\ pc[t] # pc'[t])
                   => /\ is_backing_up' = is_backing_up
                      /\ backup_queue' = backup_queue
             /\ (pc[t] = "idle" /\ pc'[t] = "ret_already_running")
                   => \E u \in Threads : pc[u] \in DrainStates
       /\ is_backing_up' => \E u \in Threads : pc'[u] \in DrainStates]_vars

\* C40 witness: a drain was cut short by an exception, its call returns
\* status error, nothing is draining and the flag is down
C40_Witness ==
    /\ \E t \in Threads : pc[t] = "ret_error"
    /\ \A u \in Threads : pc[u] \notin DrainStates
    /\ ~is_backing_up

\* a step of _add_to_pending for path p: its entry is stamped with the
\* present time and the timer is armed anew
EventOn(p) ==
    /\ should_process_file(p)
    /\ pending_files' = PutPending(p, now)
    /\ debounce_timer' = [armed |-> TRUE, due |-> now + debounce_seconds]
    /\ callbacks' = callbacks
    /\ <<pending_files, debounce_timer>>' # <<pending_files, debounce_timer>>

NoEventOn(p) == ~EventOn(p)

NoEvent == \A p \in Paths : NoEventOn(p)

\* C38: while the monitor runs, a non-empty pending map always has an armed
\* timer or a callback on its way; and once events stop arriving, every
\* pending path eventually leaves the map.
C38_PendingAlwaysLeaves ==
    /\ [](pending_files # <<>> => (debounce_timer.armed \/ callbacks > 0))
    /\ \A p \in Paths :
          <>[][NoEvent]_vars => (p \in PendingPaths ~> p \notin PendingPaths)

\* C38 witness: an event arrived after the timer fired and before its
\* callback ran: the callback is on its way, a new timer is armed, and two
\* paths of different ages are pending
C38_Witness ==
    /\ callbacks > 0
    /\ debounce_timer.armed
    /\ \E i, j \in DOMAIN pending_files :
          /\ pending_files[i].add_time = now
          /\ pending_files[j].add_time = now - debounce_seconds

\* C39: a pending path whose own events have stopped eventually leaves the
\* pending map, whatever events other paths receive.
C39_OtherPathsCannotStarve ==
    \A p \in Paths :
       <>[][NoEventOn(p)]_vars => (p \in PendingPaths ~> p \notin PendingPaths)

====
